---- MODULE Spec2Model ----
(***************************************************************************)
(* Model of examples/dll_hook: the weak-listener event channels of         *)
(* hooks.rs (event! macro), the five hook handlers installed by            *)
(* hooks::initialize, the Shared State Guard (globals().guobject_array, a  *)
(* parking_lot::FairMutex, and the static GUOBJECT_LOCK), and the start-up *)
(* sequence of lib.rs (patch).                                             *)
(*                                                                         *)
(* The host is the environment: it calls the hooked functions on the main  *)
(* thread and (allocations and frees) on another thread, and may have     *)
(* allocated objects before the hooks were enabled.  Client code (the      *)
(* owners of listener handles) registers listeners and drops handles at    *)
(* any time.  A listener is an arbitrary closure: when invoked it returns, *)
(* panics, takes the guard through guobject_array(), or calls call() or    *)
(* register() on its own channel.                                          *)
(*                                                                         *)
(* A panic that leaves a handler crosses an extern "system" frame          *)
(* (retour's detour trampoline, or the APC callback init): the process     *)
(* ends there (proc = "aborted").                                          *)
(***************************************************************************)
EXTENDS Integers, Sequences, FiniteSets, TLC

\* Bounds of the model.
MaxListeners == 2
MaxObjects == 1

MainThread == "main"
Threads == {"main", "worker"}
NoThread == "none"

\* The threads on which Spec lets the host run scripts (the callers of
\* PrintString and KismetExecutionMessage); it allocates and frees objects on
\* any thread.  BusSpec lets every thread report execution messages.
ScriptThreads == {MainThread}

\* The values of a frame's cursor (stack.code) the host passes: 0 is null.
Cursors == {0, 1}

Listeners == 1..MaxListeners
Objects == 1..MaxObjects

Channels == {"create_uobject", "delete_uobject",
             "kismet_execution_message", "kismet_print_message"}

\* The order in which hooks::initialize installs and enables the hooks.
HookOrder == <<"HookUGameEngineTick", "HookAllocateUObject", "HookFreeUObject",
               "HookKismetPrintString", "HookKismetExecutionMessage">>

Hooks == {HookOrder[i] : i \in 1..Len(HookOrder)}

\* The channel each handler publishes on.
ChannelOf(h) ==
    CASE h = "HookAllocateUObject" -> "create_uobject"
      [] h = "HookFreeUObject" -> "delete_uobject"
      [] h = "HookKismetPrintString" -> "kismet_print_message"
      [] h = "HookKismetExecutionMessage" -> "kismet_execution_message"

Range(s) == {s[i] : i \in 1..Len(s)}

VARIABLES
    proc,          \* "running" | "aborted"
    resolved,      \* outcome of exe.resolve: "none" (not run) | "ok" | "no_printstring" | "missing"
    initPc,        \* position of the main thread in patch / hooks::initialize
    cur,           \* index in HookOrder of the hook initialize is working on
    hook,          \* hook -> "Unresolved" | "Installed" | "Enabled"
    guardOwner,    \* the thread that holds globals().guobject_array, or NoThread
    guardQueue,    \* threads parked on the FairMutex, in arrival order
    GUOBJECT_LOCK, \* TRUE: Some(guard), FALSE: None
    subs,          \* channel -> the Vec<Weak<Listener>>, as listener ids
    chOwner,       \* channel -> the thread that holds the channel's Mutex, or NoThread
    poisoned,      \* channel -> the Mutex is poisoned
    handle,        \* listener -> "unborn" | "held" | "dropped" (the owner's Arc)
    objState,      \* object -> "none" | "pre" (allocated unhooked) | "hooked"
    cache,         \* objects for which object_created has run and object_deleted has not
    pubCreate,     \* object -> a create_uobject event was published for the current allocation
    tickPc,        \* thread -> position in the tick handler
    hk,            \* thread -> the handler it is in, or "none"
    hpc,           \* thread -> position in that handler: "none" | "pub" | "call" | "post" | "ret"
    arg,           \* thread -> the handler's argument (object, or cursor), 0 if none
    orig,          \* thread -> how often the handler it is in has called the original
    code,          \* thread -> stack.code of the frame the PrintString handler works on
    idx,           \* thread -> retain's position in the Vec (processed_len + 1)
    kept,          \* thread -> the entries retain has kept so far
    inv,           \* thread -> the listeners this call has invoked, in order
    snap,          \* thread -> the Vec as it was when the call took the Mutex
    dead0,         \* thread -> the entries whose handle was dropped when the call took the Mutex
    lpc            \* thread -> position in the listener being invoked

hostVars == <<objState, cache, pubCreate>>
initVars == <<resolved, initPc, cur, hook>>
guardVars == <<guardOwner, guardQueue, GUOBJECT_LOCK>>
chanVars == <<subs, chOwner, poisoned>>
callVars == <<idx, kept, inv, snap, dead0, lpc>>
thVars == <<tickPc, hk, hpc, arg, orig, code>>

vars == <<proc, resolved, initPc, cur, hook, guardOwner, guardQueue, GUOBJECT_LOCK,
          subs, chOwner, poisoned, handle, objState, cache, pubCreate,
          tickPc, hk, hpc, arg, orig, code, idx, kept, inv, snap, dead0, lpc>>

Init ==
    /\ proc = "running"
    /\ resolved = "none"
    /\ initPc = "resolve"
    /\ cur = 1
    /\ hook = [h \in Hooks |-> "Unresolved"]
    /\ guardOwner = NoThread
    /\ guardQueue = <<>>
    /\ GUOBJECT_LOCK = FALSE
    /\ subs = [c \in Channels |-> <<>>]
    /\ chOwner = [c \in Channels |-> NoThread]
    /\ poisoned = [c \in Channels |-> FALSE]
    /\ handle = [l \in Listeners |-> "unborn"]
    /\ objState = [o \in Objects |-> "none"]
    /\ cache = {}
    /\ pubCreate = [o \in Objects |-> FALSE]
    /\ tickPc = [t \in Threads |-> "idle"]
    /\ hk = [t \in Threads |-> "none"]
    /\ hpc = [t \in Threads |-> "none"]
    /\ arg = [t \in Threads |-> 0]
    /\ orig = [t \in Threads |-> 0]
    /\ code = [t \in Threads |-> 0]
    /\ idx = [t \in Threads |-> 0]
    /\ kept = [t \in Threads |-> <<>>]
    /\ inv = [t \in Threads |-> <<>>]
    /\ snap = [t \in Threads |-> <<>>]
    /\ dead0 = [t \in Threads |-> {}]
    /\ lpc = [t \in Threads |-> "none"]

----------------------------------------------------------------------------
(* The Shared State Guard: parking_lot::FairMutex.  lock() takes a free     *)
(* mutex at once and parks the caller otherwise; unlock() hands the mutex   *)
(* to the longest-parked thread.                                            *)

\* The mutex after thread t called lock(): <<owner, queue, acquired>>.
GuardLock(t) ==
    IF guardOwner = NoThread
    THEN [owner |-> t, queue |-> guardQueue, got |-> TRUE]
    ELSE [owner |-> guardOwner, queue |-> Append(guardQueue, t), got |-> FALSE]

\* An unlock that frees the mutex and leaves the parked threads parked.
GuardUnlockNoHandOff == [owner |-> NoThread, queue |-> guardQueue]

\* The mutex after its owner dropped the guard (fair unlock: direct hand-off).
GuardUnlock ==
    IF guardQueue = <<>>
    THEN [owner |-> NoThread, queue |-> <<>>]
    ELSE [owner |-> Head(guardQueue), queue |-> Tail(guardQueue)]

\* A parked thread has been handed the mutex.
GuardGranted(t) == guardOwner = t /\ t \notin Range(guardQueue)

----------------------------------------------------------------------------
(* lib.rs patch and hooks::initialize, on the main thread.                  *)

\* patch, lib.rs 201-226: the resolution succeeds, succeeds without a
\* "PrintString" entry in the kismet_system_library map, or fails (some
\* address of DllHookResolution is missing) and patch returns the error.
Resolve ==
    /\ proc = "running"
    /\ initPc = "resolve"
    /\ \E r \in {"ok", "no_printstring", "missing"} :
         /\ resolved' = r
         /\ initPc' = IF r = "missing" THEN "err" ELSE "acquire"
    /\ UNCHANGED <<proc, cur, hook, guardVars, chanVars, handle, hostVars, thVars, callVars>>

\* hooks.rs 55-57: assert_main_thread!() holds (patch recorded this thread);
\* GUOBJECT_LOCK = Some(guobject_array()).
InitAcquire ==
    /\ proc = "running"
    /\ initPc = "acquire"
    /\ guardOwner = NoThread
    /\ guardOwner' = MainThread
    /\ GUOBJECT_LOCK' = TRUE
    /\ initPc' = "install"
    /\ UNCHANGED <<proc, resolved, cur, hook, guardQueue, chanVars, handle, hostVars, thVars, callVars>>

\* The PrintString address is read with .get("PrintString").unwrap().
UnwrapPanics == HookOrder[cur] = "HookKismetPrintString" /\ resolved = "no_printstring"

\* Hook.initialize(target, closure)?  The detour library accepts or refuses.
InstallHook ==
    /\ proc = "running"
    /\ initPc = "install"
    /\ ~UnwrapPanics
    /\ \E ok \in BOOLEAN :
         IF ok
         THEN /\ hook' = [hook EXCEPT ![HookOrder[cur]] = "Installed"]
              /\ initPc' = "enable"
         ELSE /\ hook' = hook
              /\ initPc' = "err"
    /\ UNCHANGED <<proc, resolved, cur, guardVars, chanVars, handle, hostVars, thVars, callVars>>

\* hooks.rs 103-111: unwrap() of a missing "PrintString" entry panics inside
\* initialize, under the extern "system" APC callback init.
InstallUnwrapPanic ==
    /\ proc = "running"
    /\ initPc = "install"
    /\ UnwrapPanics
    /\ initPc' = "panic"
    /\ proc' = "aborted"
    /\ UNCHANGED <<resolved, cur, hook, guardVars, chanVars, handle, hostVars, thVars, callVars>>

\* An initialize that goes on to the next hook without enabling this one.
EnableHookSkipped ==
    /\ proc = "running"
    /\ initPc = "enable"
    /\ IF cur < Len(HookOrder)
       THEN cur' = cur + 1 /\ initPc' = "install"
       ELSE cur' = cur /\ initPc' = "ok"
    /\ UNCHANGED <<proc, resolved, hook, guardVars, chanVars, handle, hostVars, thVars, callVars>>

\* Hook.enable()?  Then the next hook, or Ok(()).
EnableHook ==
    /\ proc = "running"
    /\ initPc = "enable"
    /\ \E ok \in BOOLEAN :
         IF ok
         THEN /\ hook' = [hook EXCEPT ![HookOrder[cur]] = "Enabled"]
              /\ IF cur < Len(HookOrder)
                 THEN cur' = cur + 1 /\ initPc' = "install"
                 ELSE cur' = cur /\ initPc' = "ok"
         ELSE /\ hook' = hook
              /\ cur' = cur
              /\ initPc' = "err"
    /\ UNCHANGED <<proc, resolved, guardVars, chanVars, handle, hostVars, thVars, callVars>>

----------------------------------------------------------------------------
(* Client code: the owners of listener handles.                             *)

\* The next listener to be created: listeners are numbered in the order in
\* which they are registered.
NextListener == CHOOSE l \in Listeners :
                    handle[l] = "unborn" /\ \A m \in Listeners : m < l => handle[m] /= "unborn"

\* A register that puts the new entry first.
PushFront(v, l) == <<l>> \o v

\* The Vec after push(Arc::downgrade(&listener)).
Push(v, l) == Append(v, l)

\* event!::register, hooks.rs 28-31: lock the channel, push the weak
\* reference, hand the Arc back to the caller (who now holds the handle).
Register(ch) ==
    /\ proc = "running"
    /\ \E l \in Listeners : handle[l] = "unborn"
    /\ chOwner[ch] = NoThread
    /\ IF poisoned[ch]
       THEN /\ handle' = [handle EXCEPT ![NextListener] = "dropped"]
            /\ subs' = subs
       ELSE /\ handle' = [handle EXCEPT ![NextListener] = "held"]
            /\ subs' = [subs EXCEPT ![ch] = Push(subs[ch], NextListener)]
    /\ UNCHANGED <<proc, initVars, guardVars, chOwner, poisoned, hostVars, thVars, callVars>>

\* The owner drops the Arc that register returned: no strong reference is left.
DropHandle(l) ==
    /\ proc = "running"
    /\ handle[l] = "held"
    /\ handle' = [handle EXCEPT ![l] = "dropped"]
    /\ UNCHANGED <<proc, initVars, guardVars, chanVars, hostVars, thVars, callVars>>

----------------------------------------------------------------------------
(* The host calling hooked functions.                                       *)

\* Thread t is in host code, where the host may call a hooked function: the
\* main thread once patch has returned (outside the tick or inside the
\* forwarded original tick), another thread at any time.
AtHost(t) ==
    /\ proc = "running"
    /\ hk[t] = "none"
    /\ IF t = MainThread
       THEN initPc \in {"ok", "err"} /\ tickPc[t] \in {"idle", "fwd"}
       ELSE tickPc[t] = "idle"

\* No handler is working on object o.
Untouched(o) == \A t \in Threads : ~(hk[t] \in {"HookAllocateUObject", "HookFreeUObject"} /\ arg[t] = o)

\* What a handler leaves behind when it returns.
Returned(t) ==
    /\ hk' = [hk EXCEPT ![t] = "none"]
    /\ hpc' = [hpc EXCEPT ![t] = "none"]
    /\ arg' = [arg EXCEPT ![t] = 0]
    /\ orig' = [orig EXCEPT ![t] = 0]
    /\ code' = [code EXCEPT ![t] = 0]
    /\ idx' = [idx EXCEPT ![t] = 0]
    /\ kept' = [kept EXCEPT ![t] = <<>>]
    /\ inv' = [inv EXCEPT ![t] = <<>>]
    /\ snap' = [snap EXCEPT ![t] = <<>>]
    /\ dead0' = [dead0 EXCEPT ![t] = {}]

\* The host allocates or frees an object while the hook is not enabled.
HostAllocUnhooked(t, o) ==
    /\ AtHost(t)
    /\ hook["HookAllocateUObject"] /= "Enabled"
    /\ objState[o] = "none"
    /\ objState' = [objState EXCEPT ![o] = "pre"]
    /\ UNCHANGED <<proc, initVars, guardVars, chanVars, handle, cache, pubCreate,
                   thVars, callVars>>

HostFreeUnhooked(t, o) ==
    /\ AtHost(t)
    /\ hook["HookFreeUObject"] /= "Enabled"
    /\ objState[o] /= "none"
    /\ Untouched(o)
    /\ objState' = [objState EXCEPT ![o] = "none"]
    /\ pubCreate' = [pubCreate EXCEPT ![o] = FALSE]
    /\ UNCHANGED <<proc, initVars, guardVars, chanVars, handle, cache,
                   thVars, callVars>>

\* The tick handler, hooks.rs 61-69.

\* A check that lets every thread through.
AssertMainThreadMissing(t) == TRUE

\* assert_main_thread!(), lib.rs 182-187: the calling thread is the thread
\* patch recorded in Globals::main_thread_id.
AssertMainThread(t) == t = MainThread

\* assert_main_thread!() fails on any other thread: the handler panics before
\* it touches GUOBJECT_LOCK.
TickWrongThread(t) ==
    /\ AtHost(t)
    /\ hook["HookUGameEngineTick"] = "Enabled"
    /\ ~AssertMainThread(t)
    /\ tickPc' = [tickPc EXCEPT ![t] = "assert_failed"]
    /\ proc' = "aborted"
    /\ UNCHANGED <<initVars, guardVars, chanVars, handle, hostVars, hk, hpc, arg, orig, code, callVars>>

\* A tick handler that forwards without giving up the guard.
TakeGuardSkipped == UNCHANGED guardVars

\* GUOBJECT_LOCK.take(): the guard, if there is one, is dropped.
TakeGuard ==
    IF GUOBJECT_LOCK
    THEN /\ GUOBJECT_LOCK' = FALSE
         /\ guardOwner' = GuardUnlock.owner
         /\ guardQueue' = GuardUnlock.queue
    ELSE UNCHANGED guardVars

\* assert_main_thread!(); GUOBJECT_LOCK.take(); then HookUGameEngineTick.call
\* forwards to the original tick.
TickEnter(t) ==
    /\ AtHost(t)
    /\ tickPc[t] = "idle"
    /\ hook["HookUGameEngineTick"] = "Enabled"
    /\ AssertMainThread(t)
    /\ TakeGuard
    /\ tickPc' = [tickPc EXCEPT ![t] = "fwd"]
    /\ UNCHANGED <<proc, initVars, chanVars, handle, hostVars, hk, hpc, arg, orig, code, callVars>>

\* The original tick returns.
TickForwardReturn ==
    /\ AtHost(MainThread)
    /\ tickPc[MainThread] = "fwd"
    /\ tickPc' = [tickPc EXCEPT ![MainThread] = "reacq"]
    /\ UNCHANGED <<proc, initVars, guardVars, chanVars, handle, hostVars, hk, hpc, arg, orig, code, callVars>>

\* GUOBJECT_LOCK = Some(globals().guobject_array.lock()): lock() first.
TickReacquire ==
    /\ proc = "running"
    /\ tickPc[MainThread] = "reacq"
    /\ guardOwner' = GuardLock(MainThread).owner
    /\ guardQueue' = GuardLock(MainThread).queue
    /\ IF GuardLock(MainThread).got
       THEN GUOBJECT_LOCK' = TRUE /\ tickPc' = [tickPc EXCEPT ![MainThread] = "done"]
       ELSE GUOBJECT_LOCK' = GUOBJECT_LOCK /\ tickPc' = [tickPc EXCEPT ![MainThread] = "reacq_wait"]
    /\ UNCHANGED <<proc, initVars, chanVars, handle, hostVars, hk, hpc, arg, orig, code, callVars>>

\* The parked main thread is handed the mutex; the guard is stored.
TickGranted ==
    /\ proc = "running"
    /\ tickPc[MainThread] = "reacq_wait"
    /\ GuardGranted(MainThread)
    /\ GUOBJECT_LOCK' = TRUE
    /\ tickPc' = [tickPc EXCEPT ![MainThread] = "done"]
    /\ UNCHANGED <<proc, initVars, guardOwner, guardQueue, chanVars, handle, hostVars,
                   hk, hpc, arg, orig, code, callVars>>

\* The tick handler returns to the host.
TickReturn ==
    /\ proc = "running"
    /\ tickPc[MainThread] = "done"
    /\ tickPc' = [tickPc EXCEPT ![MainThread] = "idle"]
    /\ UNCHANGED <<proc, initVars, guardVars, chanVars, handle, hostVars, hk, hpc, arg, orig, code, callVars>>

\* An allocate handler that forwards to the original and publishes nothing.
AllocateUObjectSilent(t, o) ==
    /\ AtHost(t)
    /\ hook["HookAllocateUObject"] = "Enabled"
    /\ objState[o] = "none"
    /\ objState' = [objState EXCEPT ![o] = "hooked"]
    /\ pubCreate' = [pubCreate EXCEPT ![o] = FALSE]
    /\ cache' = cache \cup {o}
    /\ UNCHANGED <<proc, initVars, guardVars, chanVars, handle,
                   thVars, callVars>>

\* The allocate handler, hooks.rs 75-84: HookAllocateUObject.call (the
\* original allocates the object), object_cache::object_created, and then
\* create_uobject::call.
AllocateUObject(t, o) ==
    /\ AtHost(t)
    /\ hook["HookAllocateUObject"] = "Enabled"
    /\ objState[o] = "none"
    /\ objState' = [objState EXCEPT ![o] = "hooked"]
    /\ pubCreate' = [pubCreate EXCEPT ![o] = FALSE]
    /\ cache' = cache \cup {o}
    /\ hk' = [hk EXCEPT ![t] = "HookAllocateUObject"]
    /\ hpc' = [hpc EXCEPT ![t] = "pub"]
    /\ arg' = [arg EXCEPT ![t] = o]
    /\ orig' = [orig EXCEPT ![t] = 1]
    /\ UNCHANGED <<proc, initVars, guardVars, chanVars, handle,
                   tickPc, code, callVars>>

\* A free handler that calls the original first and publishes afterwards.
FreeUObjectForwardFirst(t, o) ==
    /\ AtHost(t)
    /\ hook["HookFreeUObject"] = "Enabled"
    /\ objState[o] /= "none"
    /\ Untouched(o)
    /\ objState' = [objState EXCEPT ![o] = "none"]
    /\ pubCreate' = [pubCreate EXCEPT ![o] = FALSE]
    /\ cache' = cache \ {o}
    /\ hk' = [hk EXCEPT ![t] = "HookFreeUObject"]
    /\ hpc' = [hpc EXCEPT ![t] = "pub"]
    /\ arg' = [arg EXCEPT ![t] = o]
    /\ orig' = [orig EXCEPT ![t] = 1]
    /\ UNCHANGED <<proc, initVars, guardVars, chanVars, handle, tickPc, code, callVars>>

\* The free handler, hooks.rs 90-99: object_cache::object_deleted, then
\* delete_uobject::call, then (FreeForward) the original.
FreeUObject(t, o) ==
    /\ AtHost(t)
    /\ hook["HookFreeUObject"] = "Enabled"
    /\ objState[o] /= "none"
    /\ Untouched(o)
    /\ cache' = cache \ {o}
    /\ hk' = [hk EXCEPT ![t] = "HookFreeUObject"]
    /\ hpc' = [hpc EXCEPT ![t] = "pub"]
    /\ arg' = [arg EXCEPT ![t] = o]
    /\ UNCHANGED <<proc, initVars, guardVars, chanVars, handle, objState, pubCreate,
                   tickPc, orig, code, callVars>>

\* The PrintString handler, hooks.rs 112-136: the arguments are read from the
\* frame (the host's stepping routines, reached through ue::kismet::arg, walk
\* the frame), then kismet_print_message::call.  c is the cursor
\* (stack.code) of the frame once the arguments are read: 0 is null.
KismetPrintString(t, c) ==
    /\ AtHost(t)
    /\ hook["HookKismetPrintString"] = "Enabled"
    /\ hk' = [hk EXCEPT ![t] = "HookKismetPrintString"]
    /\ hpc' = [hpc EXCEPT ![t] = "pub"]
    /\ arg' = [arg EXCEPT ![t] = c]
    /\ code' = [code EXCEPT ![t] = c]
    /\ UNCHANGED <<proc, initVars, guardVars, chanVars, handle, hostVars, tickPc, orig, callVars>>

\* The KismetExecutionMessage handler, hooks.rs 142-149:
\* kismet_execution_message::call, then (ExecForward) the original.
KismetExecutionMessage(t) ==
    /\ AtHost(t)
    /\ hook["HookKismetExecutionMessage"] = "Enabled"
    /\ hk' = [hk EXCEPT ![t] = "HookKismetExecutionMessage"]
    /\ hpc' = [hpc EXCEPT ![t] = "pub"]
    /\ UNCHANGED <<proc, initVars, guardVars, chanVars, handle, hostVars, tickPc, arg, orig, code, callVars>>

----------------------------------------------------------------------------
(* event!::call, hooks.rs 32-41: lock the channel's Mutex and run           *)
(* Vec::retain over the weak references, invoking each listener that        *)
(* upgrades.  The Mutex is held until retain has returned.                  *)

InCall(t) == hpc[t] = "call"
Chan(t) == ChannelOf(hk[t])

\* The events a handler publishes when it enters call().
Published(t) ==
    pubCreate' = IF hk[t] = "HookAllocateUObject"
                 THEN [pubCreate EXCEPT ![arg[t]] = TRUE] ELSE pubCreate

\* A call that starts retain without waiting for the channel's Mutex.
CallBeginUnlocked(t) ==
    /\ proc = "running"
    /\ hpc[t] = "pub"
    /\ Published(t)
    /\ hpc' = [hpc EXCEPT ![t] = "call"]
    /\ chOwner' = [chOwner EXCEPT ![Chan(t)] = t]
    /\ idx' = [idx EXCEPT ![t] = 1]
    /\ snap' = [snap EXCEPT ![t] = subs[Chan(t)]]
    /\ dead0' = [dead0 EXCEPT ![t] = {l \in Range(subs[Chan(t)]) : handle[l] = "dropped"}]
    /\ UNCHANGED <<proc, initVars, guardVars, subs, poisoned, handle, objState, cache,
                   tickPc, hk, arg, orig, code, kept, inv, lpc>>

\* get().lock().unwrap(): the caller waits until the Mutex is free; unwrap()
\* panics if it is poisoned.
CallBegin(t) ==
    /\ proc = "running"
    /\ hpc[t] = "pub"
    /\ chOwner[Chan(t)] = NoThread
    /\ Published(t)
    /\ IF poisoned[Chan(t)]
       THEN /\ proc' = "aborted"
            /\ hpc' = [hpc EXCEPT ![t] = "lock_panicked"]
            /\ UNCHANGED <<chOwner, idx, snap, dead0>>
       ELSE /\ proc' = proc
            /\ hpc' = [hpc EXCEPT ![t] = "call"]
            /\ chOwner' = [chOwner EXCEPT ![Chan(t)] = t]
            /\ idx' = [idx EXCEPT ![t] = 1]
            /\ snap' = [snap EXCEPT ![t] = subs[Chan(t)]]
            /\ dead0' = [dead0 EXCEPT ![t] = {l \in Range(subs[Chan(t)]) : handle[l] = "dropped"}]
    /\ UNCHANGED <<initVars, guardVars, subs, poisoned, handle, objState, cache,
                   tickPc, hk, arg, orig, code, kept, inv, lpc>>

\* A channel that holds strong references: every entry upgrades.
UpgradesAlways(l) == handle[l] /= "unborn"

\* f.upgrade(): the weak reference upgrades while its owner holds the Arc.
Upgrades(l) == handle[l] = "held"

\* The entry retain's closure is called on.
Entry(t) == subs[Chan(t)][idx[t]]

\* retain is at an entry whose listener no longer exists.
AtDeadEntry(t) ==
    /\ proc = "running"
    /\ InCall(t)
    /\ lpc[t] = "none"
    /\ idx[t] <= Len(subs[Chan(t)])
    /\ ~Upgrades(Entry(t))

\* retain is at an entry that upgrades: its listener is invoked.
AtLiveEntry(t) ==
    /\ proc = "running"
    /\ InCall(t)
    /\ lpc[t] = "none"
    /\ idx[t] <= Len(subs[Chan(t)])
    /\ Upgrades(Entry(t))

\* The closure returned false: the entry is dropped from the Vec.
CallDropDead(t) ==
    /\ AtDeadEntry(t)
    /\ idx' = [idx EXCEPT ![t] = @ + 1]
    /\ UNCHANGED <<proc, initVars, guardVars, chanVars, handle, hostVars, thVars,
                   kept, inv, snap, dead0, lpc>>

\* The closure returned true: the entry is kept, retain moves on.
Retained(t) ==
    /\ kept' = [kept EXCEPT ![t] = Append(@, Entry(t))]
    /\ idx' = [idx EXCEPT ![t] = @ + 1]

\* f(args): the listener is invoked.
Invoked(t) == inv' = [inv EXCEPT ![t] = Append(@, Entry(t))]

\* The listener is invoked and returns.
ListenerReturn(t) ==
    /\ AtLiveEntry(t)
    /\ Invoked(t)
    /\ Retained(t)
    /\ UNCHANGED <<proc, initVars, guardVars, chanVars, handle, hostVars, thVars, snap, dead0, lpc>>

\* The Vec a panic inside retain's closure leaves behind: the entries kept so
\* far, then the entry being visited and the entries not visited yet.
RetainUnwound(t) == kept[t] \o SubSeq(subs[Chan(t)], idx[t], Len(subs[Chan(t)]))

\* A panic unwinds out of call(): retain's drop guard restores the Vec, the
\* MutexGuard is dropped and poisons the Mutex, and the panic leaves the
\* handler.
Unwind(t, how) ==
    /\ subs' = [subs EXCEPT ![Chan(t)] = RetainUnwound(t)]
    /\ poisoned' = [poisoned EXCEPT ![Chan(t)] = TRUE]
    /\ chOwner' = [chOwner EXCEPT ![Chan(t)] = NoThread]
    /\ lpc' = [lpc EXCEPT ![t] = how]
    /\ proc' = "aborted"

\* The listener is invoked and panics.
ListenerFault(t) ==
    /\ AtLiveEntry(t)
    /\ Invoked(t)
    /\ Unwind(t, "panicked")
    /\ UNCHANGED <<initVars, guardVars, handle, hostVars, thVars, idx, kept, snap, dead0>>

\* The listener panics while it holds the guard: the unwinding drops the
\* guard.
ListenerFaultHolding(t) ==
    /\ proc = "running"
    /\ lpc[t] = "ghold"
    /\ Unwind(t, "panicked")
    /\ guardOwner' = GuardUnlock.owner
    /\ guardQueue' = GuardUnlock.queue
    /\ UNCHANGED <<initVars, GUOBJECT_LOCK, handle, hostVars, thVars, idx, kept, inv, snap, dead0>>

\* The listener is invoked and calls guobject_array(), lib.rs 194-196.
ListenerGuardLock(t) ==
    /\ AtLiveEntry(t)
    /\ Invoked(t)
    /\ guardOwner' = GuardLock(t).owner
    /\ guardQueue' = GuardLock(t).queue
    /\ lpc' = [lpc EXCEPT ![t] = IF GuardLock(t).got THEN "ghold" ELSE "gwait"]
    /\ UNCHANGED <<proc, initVars, GUOBJECT_LOCK, chanVars, handle, hostVars, thVars,
                   idx, kept, snap, dead0>>

\* The parked listener is handed the mutex.
ListenerGuardGranted(t) ==
    /\ proc = "running"
    /\ lpc[t] = "gwait"
    /\ GuardGranted(t)
    /\ lpc' = [lpc EXCEPT ![t] = "ghold"]
    /\ UNCHANGED <<proc, initVars, guardVars, chanVars, handle, hostVars, thVars,
                   idx, kept, inv, snap, dead0>>

\* The listener drops the guard and returns.
ListenerGuardRelease(t) ==
    /\ proc = "running"
    /\ lpc[t] = "ghold"
    /\ guardOwner' = GuardUnlock.owner
    /\ guardQueue' = GuardUnlock.queue
    /\ lpc' = [lpc EXCEPT ![t] = "none"]
    /\ Retained(t)
    /\ UNCHANGED <<proc, initVars, GUOBJECT_LOCK, chanVars, handle, hostVars, thVars,
                   inv, snap, dead0>>

\* What std::sync::Mutex::lock does on the thread that holds the Mutex: it
\* never returns; it deadlocks or panics.
RelockOutcomes == {"selflock", "relock_panicked"}

\* The listener is invoked and calls call() or register() on the channel
\* that is invoking it: get().lock() on a Mutex this thread holds.
ListenerReenter(t) ==
    /\ AtLiveEntry(t)
    /\ Invoked(t)
    /\ \E how \in RelockOutcomes :
         IF how = "selflock"
         THEN /\ lpc' = [lpc EXCEPT ![t] = "selflock"]
              /\ UNCHANGED <<proc, chanVars>>
         ELSE Unwind(t, how)
    /\ UNCHANGED <<initVars, guardVars, handle, hostVars, thVars, idx, kept, snap, dead0>>

\* retain has visited every entry: the Vec holds the kept entries, the
\* MutexGuard is dropped, call() returns.
CallEnd(t) ==
    /\ proc = "running"
    /\ InCall(t)
    /\ lpc[t] = "none"
    /\ idx[t] > Len(subs[Chan(t)])
    /\ subs' = [subs EXCEPT ![Chan(t)] = kept[t]]
    /\ chOwner' = [chOwner EXCEPT ![Chan(t)] = NoThread]
    /\ hpc' = [hpc EXCEPT ![t] = "post"]
    /\ UNCHANGED <<proc, initVars, guardVars, poisoned, handle, hostVars, tickPc, hk, arg, orig, code, callVars>>

\* hooks.rs 84: the allocate handler returns.
AllocReturn(t) ==
    /\ proc = "running"
    /\ hk[t] = "HookAllocateUObject"
    /\ hpc[t] = "post"
    /\ Returned(t)
    /\ UNCHANGED <<proc, initVars, guardVars, chanVars, handle, hostVars, tickPc, lpc>>

\* hooks.rs 98: HookFreeUObject.call, the original frees the object.
FreeForward(t) ==
    /\ proc = "running"
    /\ hk[t] = "HookFreeUObject"
    /\ hpc[t] = "post"
    /\ objState' = [objState EXCEPT ![arg[t]] = "none"]
    /\ pubCreate' = [pubCreate EXCEPT ![arg[t]] = FALSE]
    /\ orig' = [orig EXCEPT ![t] = @ + 1]
    /\ hpc' = [hpc EXCEPT ![t] = "ret"]
    /\ UNCHANGED <<proc, initVars, guardVars, chanVars, handle, cache,
                   tickPc, hk, arg, code, callVars>>

\* A cursor step that does not look at the cursor.
AdvanceCursorUnchecked(c) == c + 1

\* hooks.rs 133-135: if !stack.code.is_null() { stack.code = stack.code.add(1) }
AdvanceCursor(c) == IF c /= 0 THEN c + 1 ELSE c

\* The PrintString handler after kismet_print_message::call returned: the
\* cursor step.  The handler never calls HookKismetPrintString.call.
PrintAdvanceCursor(t) ==
    /\ proc = "running"
    /\ hk[t] = "HookKismetPrintString"
    /\ hpc[t] = "post"
    /\ code' = [code EXCEPT ![t] = AdvanceCursor(@)]
    /\ hpc' = [hpc EXCEPT ![t] = "ret"]
    /\ UNCHANGED <<proc, initVars, guardVars, chanVars, handle, hostVars,
                   tickPc, hk, arg, orig, callVars>>

\* A KismetExecutionMessage handler that returns without calling the original.
ExecForwardSkipped(t) ==
    /\ proc = "running"
    /\ hk[t] = "HookKismetExecutionMessage"
    /\ hpc[t] = "post"
    /\ hpc' = [hpc EXCEPT ![t] = "ret"]
    /\ UNCHANGED <<proc, initVars, guardVars, chanVars, handle, hostVars,
                   tickPc, hk, arg, orig, code, callVars>>

\* hooks.rs 148: HookKismetExecutionMessage.call.
ExecForward(t) ==
    /\ proc = "running"
    /\ hk[t] = "HookKismetExecutionMessage"
    /\ hpc[t] = "post"
    /\ orig' = [orig EXCEPT ![t] = @ + 1]
    /\ hpc' = [hpc EXCEPT ![t] = "ret"]
    /\ UNCHANGED <<proc, initVars, guardVars, chanVars, handle, hostVars,
                   tickPc, hk, arg, code, callVars>>

\* The free, PrintString or KismetExecutionMessage handler returns to the host.
HandlerReturn(t) ==
    /\ proc = "running"
    /\ hpc[t] = "ret"
    /\ Returned(t)
    /\ UNCHANGED <<proc, initVars, guardVars, chanVars, handle, hostVars, tickPc, lpc>>

Next ==
    \/ Resolve
    \/ InitAcquire
    \/ InstallHook
    \/ InstallUnwrapPanic
    \/ EnableHook
    \/ \E ch \in Channels : Register(ch)
    \/ \E l \in Listeners : DropHandle(l)
    \/ \E t \in Threads, o \in Objects : HostAllocUnhooked(t, o)
    \/ \E t \in Threads, o \in Objects : HostFreeUnhooked(t, o)
    \/ \E t \in Threads : TickWrongThread(t)
    \/ \E t \in Threads : TickEnter(t)
    \/ TickForwardReturn
    \/ TickReacquire
    \/ TickGranted
    \/ TickReturn
    \/ \E t \in Threads, o \in Objects : AllocateUObject(t, o)
    \/ \E t \in Threads, o \in Objects : FreeUObject(t, o)
    \/ \E t \in ScriptThreads, c \in Cursors : KismetPrintString(t, c)
    \/ \E t \in ScriptThreads : KismetExecutionMessage(t)
    \/ \E t \in Threads : CallBegin(t)
    \/ \E t \in Threads : CallDropDead(t)
    \/ \E t \in Threads : ListenerReturn(t)
    \/ \E t \in Threads : ListenerFault(t)
    \/ \E t \in Threads : ListenerFaultHolding(t)
    \/ \E t \in Threads : ListenerGuardLock(t)
    \/ \E t \in Threads : ListenerGuardGranted(t)
    \/ \E t \in Threads : ListenerGuardRelease(t)
    \/ \E t \in Threads : ListenerReenter(t)
    \/ \E t \in Threads : CallEnd(t)
    \/ \E t \in Threads : AllocReturn(t)
    \/ \E t \in Threads : FreeForward(t)
    \/ \E t \in Threads : PrintAdvanceCursor(t)
    \/ \E t \in Threads : ExecForward(t)
    \/ \E t \in Threads : HandlerReturn(t)

Spec == Init /\ [][Next]_vars

----------------------------------------------------------------------------
(* Properties.                                                              *)

Count(s, x) == Cardinality({i \in 1..Len(s) : s[i] = x})

StrictlyIncreasing(s) == \A i, j \in 1..Len(s) : i < j => s[i] < s[j]

\* C1: a listener whose handle was dropped before a call took the channel is
\* never invoked by that call, and once the call has returned the channel's
\* list holds no entry for it.
C1_DroppedNeverInvokedAndPruned ==
    \A t \in Threads :
        /\ \A i \in 1..Len(inv[t]) : inv[t][i] \notin dead0[t]
        /\ hpc[t] = "post" => \A l \in dead0[t] : l \notin Range(subs[Chan(t)])

\* A call has returned after pruning an entry that was dead when it began.
C1_Witness == \E t \in Threads : hpc[t] = "post" /\ dead0[t] /= {}

DispatchEnded(t) == hpc[t] = "post" \/ (hpc[t] = "call" /\ lpc[t] = "panicked")

\* C3: once the dispatch of an intercepted allocation has ended, every
\* listener that was on create_uobject when it began and is still live has
\* been invoked exactly once and (if call returned) is still registered; no
\* listener dropped before it began has been invoked.
C3_AllocationReachesLiveListeners ==
    \A t \in Threads :
        (hk[t] = "HookAllocateUObject" /\ DispatchEnded(t)) =>
            /\ \A l \in Range(snap[t]) :
                  handle[l] = "held" =>
                      /\ Count(inv[t], l) = 1
                      /\ hpc[t] = "post" => l \in Range(subs["create_uobject"])
            /\ \A l \in dead0[t] : Count(inv[t], l) = 0

\* C4: a listener that calls call() or register() on the channel invoking it
\* neither deadlocks nor faults.
C4_ReentrantListenerReturns ==
    \A t \in Threads : lpc[t] \notin RelockOutcomes

\* C5: when a listener has panicked, every other live listener of that call
\* has been invoked, and the channel is still usable.
C5_ListenerFaultContained ==
    \A t \in Threads :
        lpc[t] = "panicked" =>
            /\ \A l \in Range(snap[t]) : handle[l] = "held" => l \in Range(inv[t])
            /\ ~poisoned[Chan(t)]
            /\ proc = "running"

\* The thread that holds the guard is in a listener's critical section, or
\* has just been handed the mutex: it can go on and release it.
HolderCanProceed(o) ==
    \/ lpc[o] = "ghold"
    \/ lpc[o] = "gwait" /\ GuardGranted(o)

\* C6: while the main thread is inside the forwarded original tick,
\* GUOBJECT_LOCK is empty and the main thread holds the mutex only through a
\* listener's own guobject_array() guard; a main-thread listener that waits
\* for the mutex there waits for another thread that can release it; the
\* guard is stored again only after the original has returned, and is held
\* by the main thread when the tick handler returns.
C6_TickReleasesGuardAroundForward ==
    /\ tickPc[MainThread] \in {"fwd", "reacq", "reacq_wait"} => ~GUOBJECT_LOCK
    /\ (tickPc[MainThread] = "fwd" /\ guardOwner = MainThread) => HolderCanProceed(MainThread)
    /\ (tickPc[MainThread] = "fwd" /\ lpc[MainThread] = "gwait" /\ ~GuardGranted(MainThread)) =>
            /\ guardOwner \in Threads \ {MainThread}
            /\ proc = "running" => HolderCanProceed(guardOwner)
    /\ tickPc[MainThread] = "done" => (GUOBJECT_LOCK /\ guardOwner = MainThread)

\* Inside the forwarded tick a main-thread listener holds the guard it took
\* with guobject_array().
C6_Witness == tickPc[MainThread] = "fwd" /\ lpc[MainThread] = "ghold"

\* C7 as stated: a delete_uobject event is published for an object only
\* after a create_uobject event was published for it.
C7_DeleteOnlyAfterCreate ==
    \A t \in Threads :
        (hk[t] = "HookFreeUObject" /\ hpc[t] \in {"call", "post"}) => pubCreate[arg[t]]

\* C7 amended: for an object whose allocation went through the allocate
\* hook, the create_uobject event of that allocation was published before
\* its delete_uobject event is.
C7_HookedCreateBeforeDelete ==
    \A t \in Threads :
        (hk[t] = "HookFreeUObject" /\ hpc[t] \in {"call", "post"} /\ objState[arg[t]] = "hooked") =>
            pubCreate[arg[t]]

\* The delete event of an object allocated through the hook has been published.
C7_Witness ==
    \E t \in Threads :
        hk[t] = "HookFreeUObject" /\ hpc[t] = "post" /\ objState[arg[t]] = "hooked"

\* C8: a guard exists only for a held mutex, and initialize does not leave
\* the mutex held when it exits with an error.
C8_GuardStrictlyPaired ==
    /\ guardOwner = NoThread => (~GUOBJECT_LOCK /\ \A t \in Threads : lpc[t] /= "ghold")
    /\ initPc = "err" => ~(GUOBJECT_LOCK /\ guardOwner = MainThread /\ tickPc[MainThread] = "idle")

\* C9: once initialize has reported a failure, no hook is enabled.
C9_NoPartialHookSet ==
    initPc = "err" => \A h \in Hooks : hook[h] /= "Enabled"

\* C10: when an address is missing from the resolution (the "PrintString"
\* entry included), no hook is installed or enabled and initialize does not
\* panic.
C10_MissingAddressAbortsBeforeHooks ==
    resolved \in {"missing", "no_printstring"} =>
        /\ \A h \in Hooks : hook[h] = "Unresolved"
        /\ initPc /= "panic"

\* C11: no fault raised while a handler runs leaves the handler: a thread is
\* never thrown out of a handler by a panic of a listener or of the channel
\* lock.  (The wrong-thread assertion of the tick handler is allowed to end
\* the process.)
C11_HandlerFaultsContained ==
    \A t \in Threads :
        hk[t] /= "none" =>
            /\ lpc[t] \notin {"panicked", "relock_panicked"}
            /\ hpc[t] /= "lock_panicked"

----------------------------------------------------------------------------
(* The guard under fair scheduling.  The guard is taken by initialize, by  *)
(* the tick handler and by listeners; GuardNext keeps the tick hook and the *)
(* two object hooks, whose handlers (and so their listeners) run on every   *)
(* thread.  A thread that can go on in the library's code, or in the        *)
(* original tick, eventually does.  Whether the host calls a hooked         *)
(* function, and what a listener does, is left open.                        *)

GuardNext ==
    \/ Resolve
    \/ InitAcquire
    \/ InstallHook
    \/ InstallUnwrapPanic
    \/ EnableHook
    \/ \E ch \in {"create_uobject", "delete_uobject"} : Register(ch)
    \/ \E l \in Listeners : DropHandle(l)
    \/ \E t \in Threads : TickWrongThread(t)
    \/ \E t \in Threads : TickEnter(t)
    \/ TickForwardReturn
    \/ TickReacquire
    \/ TickGranted
    \/ TickReturn
    \/ \E t \in Threads, o \in Objects : AllocateUObject(t, o)
    \/ \E t \in Threads, o \in Objects : FreeUObject(t, o)
    \/ \E t \in Threads : CallBegin(t)
    \/ \E t \in Threads : CallDropDead(t)
    \/ \E t \in Threads : ListenerReturn(t)
    \/ \E t \in Threads : ListenerFault(t)
    \/ \E t \in Threads : ListenerFaultHolding(t)
    \/ \E t \in Threads : ListenerGuardLock(t)
    \/ \E t \in Threads : ListenerGuardGranted(t)
    \/ \E t \in Threads : ListenerGuardRelease(t)
    \/ \E t \in Threads : ListenerReenter(t)
    \/ \E t \in Threads : CallEnd(t)
    \/ \E t \in Threads : AllocReturn(t)
    \/ \E t \in Threads : FreeForward(t)
    \/ \E t \in Threads : HandlerReturn(t)

ThreadStep(t) ==
    \/ CallBegin(t)
    \/ CallDropDead(t)
    \/ CallEnd(t)
    \/ ListenerGuardGranted(t)
    \/ ListenerGuardRelease(t)
    \/ AllocReturn(t)
    \/ FreeForward(t)
    \/ HandlerReturn(t)
    \/ (t = MainThread /\ (TickForwardReturn \/ TickReacquire \/ TickGranted \/ TickReturn))

FairSpec == Init /\ [][GuardNext]_vars /\ \A t \in Threads : WF_vars(ThreadStep(t))

\* Thread t is parked in lock() on the guard's mutex.
GuardWaiting(t) == t \in Range(guardQueue)

\* The host keeps calling the hooked tick.
HostKeepsTicking == []<><<\E t \in Threads : TickEnter(t)>>_vars

\* C12: when the host keeps calling the tick hook, every thread parked in
\* guobject_array() or in the tick handler's lock() is eventually handed the
\* mutex.
C12_GuardWaitersAcquire ==
    HostKeepsTicking => \A t \in Threads : GuardWaiting(t) ~> GuardGranted(t)

\* A thread other than the main thread was parked and has been handed the
\* mutex while the main thread is inside the forwarded tick.
C12_Witness ==
    \E t \in Threads \ {MainThread} :
        lpc[t] = "gwait" /\ GuardGranted(t) /\ tickPc[MainThread] = "fwd"

\* The handler of thread t has published its event: it has entered call().
EventPublished(t) == hpc[t] \in {"call", "post", "ret"}

\* C13 as stated: every handler publishes its event after the original has
\* been called (once) and has returned, and returns having called the
\* original exactly once.
C13_ForwardThenPublish ==
    \A t \in Threads :
        /\ EventPublished(t) => orig[t] = 1
        /\ hpc[t] = "ret" => orig[t] = 1

\* C13 amended: a handler calls the original at most once, on the arguments
\* it received.  The allocate handler calls it before it publishes; the free
\* and KismetExecutionMessage handlers publish first and have called it
\* exactly when they are about to return; the PrintString handler never
\* calls it; the tick handler publishes nothing of its own.
C13_WiringPerHandler ==
    /\ \A t \in Threads :
        /\ orig[t] \in {0, 1}
        /\ hk[t] = "HookAllocateUObject" => (orig[t] = 1 /\ objState[arg[t]] = "hooked")
        /\ hk[t] \in {"HookFreeUObject", "HookKismetExecutionMessage"} =>
              (orig[t] = 1 <=> hpc[t] = "ret")
        /\ (hk[t] = "HookFreeUObject" /\ hpc[t] /= "ret") => objState[arg[t]] /= "none"
        /\ hk[t] = "HookKismetPrintString" => orig[t] = 0
    /\ tickPc[MainThread] \in {"reacq", "reacq_wait", "done"} => hk[MainThread] = "none"

\* A free handler has published its event and then called the original,
\* while the PrintString handler is about to return.
C13_Witness ==
    \E t, u \in Threads :
        /\ hk[t] = "HookFreeUObject" /\ hpc[t] = "ret"
        /\ hk[u] = "HookKismetPrintString" /\ hpc[u] = "ret"

C15_GuardStateMainThreadOnly ==
    /\ [](\A t \in Threads :
            tickPc[t] \in {"fwd", "reacq", "reacq_wait", "done"} => t = MainThread)
    /\ [][/\ GUOBJECT_LOCK' /= GUOBJECT_LOCK =>
                (initPc' /= initPc \/ tickPc'[MainThread] /= tickPc[MainThread])
          /\ \A t \in Threads :
                (tickPc'[t] = "assert_failed" /\ tickPc[t] /= "assert_failed") =>
                    (t /= MainThread /\ UNCHANGED guardVars /\ proc' = "aborted")]_vars

\* The tick hook was entered on another thread and faulted, the guard still
\* stored by the main thread.
C15_Witness ==
    \E t \in Threads \ {MainThread} :
        tickPc[t] = "assert_failed" /\ GUOBJECT_LOCK /\ guardOwner = MainThread

\* C16: while create_uobject listeners run for an object, the original
\* allocation has returned and object_created has run; while delete_uobject
\* listeners run for an object, object_deleted has run and the original free
\* has not been called: the object is allocated in both cases.
C16_ListenersSeeAllocatedObject ==
    \A t \in Threads :
        /\ (hk[t] = "HookAllocateUObject" /\ hpc[t] = "call") =>
              (orig[t] = 1 /\ objState[arg[t]] = "hooked" /\ arg[t] \in cache)
        /\ (hk[t] = "HookFreeUObject" /\ hpc[t] = "call") =>
              (orig[t] = 0 /\ objState[arg[t]] /= "none" /\ arg[t] \notin cache)

\* A delete_uobject listener has been invoked and the call is still going on.
C16_Witness ==
    \E t \in Threads : hk[t] = "HookFreeUObject" /\ hpc[t] = "call" /\ inv[t] /= <<>>

\* initialize has stored the guard.
GuardAcquired == resolved \in {"ok", "no_printstring"} /\ initPc /= "acquire"

\* The main thread is between the take() and the store of the tick handler.
InTickWindow == tickPc[MainThread] \in {"fwd", "reacq", "reacq_wait"}

\* C17: once initialize has stored the guard, GUOBJECT_LOCK holds it exactly
\* when the main thread is outside the tick handler's release window, it
\* belongs to the main thread, and the main thread never waits for the mutex
\* while GUOBJECT_LOCK holds the guard.
C17_GuardHeldOutsideTickNoSelfAcquire ==
    GuardAcquired =>
        /\ GUOBJECT_LOCK <=> ~InTickWindow
        /\ GUOBJECT_LOCK => guardOwner = MainThread
        /\ ~(GUOBJECT_LOCK /\ GuardWaiting(MainThread))

\* The order of the hooks in hooks::initialize.
C18_Order == <<"HookUGameEngineTick", "HookAllocateUObject", "HookFreeUObject",
               "HookKismetPrintString", "HookKismetExecutionMessage">>

----------------------------------------------------------------------------
(* One channel under contention: every thread of the host reports execution *)
(* messages (FFrame::KismetExecutionMessage is hooked wherever script code  *)
(* runs), so that calls on kismet_execution_message meet each other and     *)
(* meet register.                                                           *)

BusNext ==
    \/ Resolve
    \/ InitAcquire
    \/ InstallHook
    \/ InstallUnwrapPanic
    \/ EnableHook
    \/ Register("kismet_execution_message")
    \/ \E l \in Listeners : DropHandle(l)
    \/ \E t \in Threads : KismetExecutionMessage(t)
    \/ \E t \in Threads : CallBegin(t)
    \/ \E t \in Threads : CallDropDead(t)
    \/ \E t \in Threads : ListenerReturn(t)
    \/ \E t \in Threads : ListenerFault(t)
    \/ \E t \in Threads : ListenerReenter(t)
    \/ \E t \in Threads : CallEnd(t)
    \/ \E t \in Threads : ExecForward(t)
    \/ \E t \in Threads : HandlerReturn(t)

BusSpec == Init /\ [][BusNext]_vars

\* C19: at most one call is in progress on a channel; while it is, its thread
\* holds the channel and the list is the one the call began with (no
\* register has taken effect in between); a call that has returned has
\* invoked, once, every listener of that list that is live, and no other.
C19_DispatchSerialized ==
    /\ \A t, u \in Threads :
          (t /= u /\ InCall(t) /\ InCall(u)) => Chan(t) /= Chan(u)
    /\ \A t \in Threads :
          (InCall(t) /\ lpc[t] \notin {"panicked", "relock_panicked"}) =>
              (chOwner[Chan(t)] = t /\ subs[Chan(t)] = snap[t])
    /\ \A t \in Threads :
          hpc[t] = "post" =>
              /\ \A l \in Range(snap[t]) : handle[l] = "held" => Count(inv[t], l) = 1
              /\ Range(inv[t]) \subseteq Range(snap[t])

\* A call has invoked a listener while another thread waits to call on the
\* same channel.
C19_Witness ==
    \E t, u \in Threads :
        /\ InCall(t) /\ inv[t] /= <<>>
        /\ hpc[u] = "pub" /\ Chan(u) = Chan(t)
====
